---- MODULE Spec2Model ----
(***************************************************************************)
(* Playout (jitter) buffer of src/src/rtp/pbuf.cpp.                        *)
(*                                                                         *)
(* The heap of pbuf_node objects is modelled with its nxt/prv pointers,    *)
(* struct pbuf is one record, every coded_data list is the sequence of its *)
(* elements from the head (cdata) along nxt.  Time is in microseconds.     *)
(* malloc/new are taken to succeed.                                        *)
(***************************************************************************)
EXTENDS Integers, Sequences, FiniteSets

(* ------------------------------ bounds -------------------------------- *)
\* number of distinct media timestamps offered to pbuf_insert
NumTs == 3
\* number of consecutive sequence numbers offered, starting at SeqStart
NumSeqs == 3
\* pbuf_insert calls per behaviour
MaxInserts == 3
\* pbuf_insert calls per behaviour of the reordering network
MaxNetInserts == 4
\* clock advances per behaviour
MaxTicks == 3
\* pbuf_insert calls per behaviour of the long stream
MaxStream == 260

\* pbuf_insert calls per behaviour of the frame fed with any numbers
MaxPairInserts == 3

\* pbuf_insert calls per behaviour of the stream of any numbers
MaxCursorInserts == 3

(* ------------------------- program constants -------------------------- *)
NULL == 0
STATS_INTERVAL == 128
number_word_bits == 64
InitialDelayUs == 32000
GracePeriod == 1000000
ReportTsThreshold == 450000
SeqMod == 65536

(* --------------------------- input domains ---------------------------- *)
\* first sequence number offered: the stream crosses the 16-bit boundary
SeqStart == SeqMod - 1
HalfEpoch == SeqMod \div 2
Timestamps == {100 * k : k \in 1..NumTs}
\* consecutive numbers across the wrap, and the number half an epoch after
\* the first one
Seqs == {(SeqStart + k) % SeqMod : k \in 0..(NumSeqs - 1)}
          \cup {(SeqStart + HalfEpoch) % SeqMod}
NodeIds == 1..NumTs
\* values of the playout delay (us) handed to pbuf_set_playout_delay
Delays == {InitialDelayUs, InitialDelayUs \div 2}
\* values of the live offset *offset_ms
Offsets == {0, 16}
\* results of the decode callback
CallbackResults == {0, 1}
\* first sequence numbers of the long stream: at the start of a window of
\* the statistics, one after it, and two before the 16-bit boundary
StreamStarts == {0, 1, SeqMod - 2}
\* sequence numbers the long stream may lose
GapSeqs == {50}
\* the bursty stream loses a run of numbers from one of these on: inside a
\* word of the bitmap, two before the end of a word, at the start of a
\* word, and at the last number before the 16-bit boundary
BurstStarts == {50, 62, 64, SeqMod - 1}
\* lengths of the runs lost: one number, a few, a whole word
BurstLens == {1, 4, number_word_bits}

\* sequence numbers at both ends and around the middle of the 16-bit range:
\* neighbours across the boundary and pairs half the range apart
PairSeqs == {0, 1, HalfEpoch - 1, HalfEpoch, HalfEpoch + 1, SeqMod - 1}
\* sequence numbers the stream may hold back and deliver late: the last
\* but one and the last number of a word of the bitmap, and the last number
\* of a window of the statistics
LateSeqs == {62, 63, STATS_INTERVAL - 1}
\* sequence numbers of the stream of any numbers: the first and the last
\* of a report interval, next to the wrap and half an epoch away
CursorSeqs ==
    {0, STATS_INTERVAL - 1, STATS_INTERVAL, 2 * STATS_INTERVAL - 1,
     2 * STATS_INTERVAL, 3 * STATS_INTERVAL - 1,
     HalfEpoch - 1, HalfEpoch, SeqMod - STATS_INTERVAL - 1, SeqMod - 1}
\* its media timestamps: with and without a report due
CursorTimestamps == {100, ReportTsThreshold + 101}
\* media timestamps of the stream with reports: a first one, one at the
\* report threshold past the initial last_display_ts (0) and one just over it
ReportTimestamps == {100, ReportTsThreshold, ReportTsThreshold + 1}

VARIABLES
    playout_buf,   \* struct pbuf
    node,          \* heap of struct pbuf_node, by address
    offset_ms,     \* the int behind playout_buf->offset_ms
    clock,         \* std::chrono::high_resolution_clock::now()
    ninserts,      \* number of pbuf_insert calls so far
    call,          \* the last call: its arguments and what it returned
    decode_data    \* what decode_func has been handed so far: the media
                   \* timestamps of the frames, in the order of the calls

vars == <<playout_buf, node, offset_ms, clock, ninserts, call, decode_data>>

(* ----------------------------- arithmetic ----------------------------- *)
Max(a, b) == IF a >= b THEN a ELSE b

\* (uint16_t) x
U16(x) == x % SeqMod

\* variant: a - b without the cast to int16_t
SDiff16Plain(a, b) == a - b

\* (int16_t)(a - b)
SDiff16(a, b) ==
    LET d == (a - b) % SeqMod
    IN  IF d >= HalfEpoch THEN d - SeqMod ELSE d

\* (uint32_t)(a - b) > thr, for 0 <= a, b < 2^31 and 0 < thr < 2^31
\* (2^32 itself is not formed: when a < b the difference is 2^32 - (b - a),
\*  compared through its 16-bit halves)
U32SubGt(a, b, thr) ==
    IF a >= b
    THEN a - b > thr
    ELSE LET x  == b - a
             hi == SeqMod - (thr \div SeqMod) - 1
             lo == SeqMod - (thr % SeqMod)
         IN  \/ x \div SeqMod < hi
             \/ x \div SeqMod = hi /\ x % SeqMod < lo

(* --------------------------- the statistics --------------------------- *)
\* playout_buf->packets is the set of the indices of its set bits:
\* bit (i % 64) of packets[i / 64] is index i.

\* the set bits of one unsigned long long of the bitmap, as bit positions
WordBits(packets, w) ==
    {s % number_word_bits : s \in {x \in packets : x \div number_word_bits = w}}

MaxOf(S) == CHOOSE x \in S : \A y \in S : y <= x
MinOf(S) == CHOOSE x \in S : \A y \in S : x <= y

\* __builtin_clzll and __builtin_ctzll of a non-zero word
clzll(bits) == (number_word_bits - 1) - MaxOf(bits)
ctzll(bits) == MinOf(bits)
\* packets >> k
ShiftRightBy(bits, k) == {b - k : b \in {x \in bits : x >= k}}

\* while (packets != 0) { gap = max(gap, ctz(packets)); packets >>= 1; }
\* iteration k (from 0) sees packets >> k, which is non-zero up to the
\* highest set bit; the gap after the loop is the greatest value met
CtzLoop(gap, bits) ==
    Max(gap, MaxOf({ctzll(ShiftRightBy(bits, k)) : k \in 0..MaxOf(bits)}))

\* variant: without the loop over the shifted word
compute_longest_gap_edges(longest_gap, bits) ==
    IF longest_gap = number_word_bits THEN longest_gap
    ELSE IF bits = {} THEN number_word_bits
    ELSE IF bits = 0..(number_word_bits - 1) THEN longest_gap
    ELSE Max(Max(longest_gap, clzll(bits)), ctzll(bits))

compute_longest_gap(longest_gap, bits) ==
    IF longest_gap = number_word_bits THEN longest_gap
    ELSE IF bits = {} THEN number_word_bits
    ELSE IF bits = 0..(number_word_bits - 1) THEN longest_gap
    ELSE CtzLoop(Max(longest_gap, clzll(bits)), bits)

\* variant: packets[i / 64] = 0 comes first in the body
FlushWordClearFirst(i, pb) ==
    LET w == i \div number_word_bits
    IN  [pb EXCEPT
           !.expected_pkts = @ + number_word_bits,
           !.longest_gap   = compute_longest_gap(@, {}),
           !.packets       = {x \in @ : x \div number_word_bits # w}]

\* the body of the flush loop for index i
FlushWord(i, pb) ==
    LET w    == i \div number_word_bits
        bits == WordBits(pb.packets, w)
    IN  [pb EXCEPT
           !.expected_pkts = @ + number_word_bits,
           !.received_pkts = @ + Cardinality(bits),
           !.longest_gap   = compute_longest_gap(@, bits),
           \* packets[w] = 0
           !.packets       = IF bits = {} THEN @
                             ELSE {x \in @ : x \div number_word_bits # w}]

\* variant: for (i = last_report_seq; i < report_seq_until; i += 64)
FlushCountLt(i, report_seq_until) ==
    IF i < report_seq_until
    THEN (report_seq_until - i) \div number_word_bits
    ELSE 0

\* the number of iterations until (uint16_t) i == report_seq_until
FlushCount(i, report_seq_until) ==
    U16(report_seq_until - i) \div number_word_bits

\* whether some bit is set in the n words from index i on
AnyBit(packets, i, n) ==
    \E x \in packets :
        U16(x - i) \div number_word_bits < n

RECURSIVE FlushLoop(_, _, _)
\* for (uint16_t i = last_report_seq; i != report_seq_until; i += 64):
\* the n iterations from i on, in order.  Iterations over words that are
\* all zero only add to expected_pkts and leave longest_gap at 64
\* (compute_longest_gap of a zero word), so a run of them is taken at once;
\* otherwise the first half of the iterations, then the rest from where the
\* first half has left the statistics.
FlushLoop(i, n, pb) ==
    IF n = 0 THEN pb
    ELSE IF ~AnyBit(pb.packets, i, n)
         THEN [pb EXCEPT !.expected_pkts = @ + n * number_word_bits,
                         !.longest_gap = number_word_bits]
    ELSE IF n = 1 THEN FlushWord(i, pb)
    ELSE LET h     == n \div 2
             first == FlushLoop(i, h, pb)
         IN  IF first.expected_pkts # pb.expected_pkts
             THEN FlushLoop(U16(i + h * number_word_bits), n - h, first)
             ELSE first

\* variant: the cursor is set, the slots before the first sequence number
\* are left unset
StatsInitNoMark(pb, pkt) ==
    IF pb.last_report_seq = -1
    THEN LET cursor == (pkt.seq \div STATS_INTERVAL) * STATS_INTERVAL
         IN  [pb EXCEPT !.last_report_seq = cursor]
    ELSE pb

\* variant: the cursor starts at the first sequence number itself
StatsInitUnaligned(pb, pkt) ==
    IF pb.last_report_seq = -1
    THEN [pb EXCEPT !.last_report_seq = pkt.seq]
    ELSE pb

\* the first-packet initialisation of the cursor and of the slots before
\* the first sequence number
StatsInit(pb, pkt) ==
    IF pb.last_report_seq = -1
    THEN LET cursor == (pkt.seq \div STATS_INTERVAL) * STATS_INTERVAL
         IN  [pb EXCEPT !.last_report_seq = cursor,
                        !.packets = @ \cup {i \in cursor..(pkt.seq - 1) : TRUE}]
    ELSE pb

\* variant: the out-of-order flag looks at the whole window of
\* STATS_INTERVAL slots around pkt->seq
StatsMarkWindow(pb, pkt) ==
    [pb EXCEPT
       !.out_of_order_pkts =
           @ \/ (\E x \in pb.packets :
                    /\ x \div STATS_INTERVAL = pkt.seq \div STATS_INTERVAL
                    /\ x > pkt.seq),
       !.dups    = @ \/ (pkt.seq \in pb.packets),
       !.packets = @ \cup {pkt.seq}]

\* sets the bit of pkt->seq, the out-of-order and the duplicate flag
StatsMark(pb, pkt) ==
    LET w   == pkt.seq \div number_word_bits
        bit == pkt.seq % number_word_bits
    IN  [pb EXCEPT
           !.out_of_order_pkts =
               @ \/ (\E b \in WordBits(pb.packets, w) : b > bit),
           !.dups    = @ \/ (pkt.seq \in pb.packets),
           !.packets = @ \cup {pkt.seq}]

\* whether this packet makes the cursor flush
FlushDue(pb, pkt) ==
    U16(pkt.seq - pb.last_report_seq) >= STATS_INTERVAL * 2

\* variant: the cumulative expected count is added up before the loop
StatsFlushEarlyCum(pb, pkt) ==
    IF FlushDue(pb, pkt)
    THEN LET report_seq_until ==
                 U16((pkt.seq \div STATS_INTERVAL) * STATS_INTERVAL
                        - STATS_INTERVAL)
             i0 == U16(pb.last_report_seq)
             f == FlushLoop(i0, FlushCount(i0, report_seq_until), pb)
         IN  [f EXCEPT !.received_pkts_cum = @ + f.received_pkts,
                       !.expected_pkts_cum = @ + pb.expected_pkts,
                       !.last_report_seq   = report_seq_until]
    ELSE pb

StatsFlush(pb, pkt) ==
    IF FlushDue(pb, pkt)
    THEN LET report_seq_until ==
                 U16((pkt.seq \div STATS_INTERVAL) * STATS_INTERVAL
                        - STATS_INTERVAL)
             i0 == U16(pb.last_report_seq)
             f == FlushLoop(i0, FlushCount(i0, report_seq_until), pb)
         IN  [f EXCEPT !.received_pkts_cum = @ + f.received_pkts,
                       !.expected_pkts_cum = @ + f.expected_pkts,
                       !.last_report_seq   = report_seq_until]
    ELSE pb

\* whether this packet makes the periodic report print
ReportDue(pb, pkt) ==
    /\ U32SubGt(pkt.ts, pb.last_display_ts, ReportTsThreshold)
    /\ pb.expected_pkts > 0

\* variant: the report resets expected_pkts and leaves received_pkts
StatsReportKeepReceived(pb, pkt) ==
    IF ReportDue(pb, pkt)
    THEN [pb EXCEPT !.expected_pkts = 0,
                    !.last_display_ts = pkt.ts,
                    !.longest_gap = 0,
                    !.out_of_order_pkts = FALSE,
                    !.dups = FALSE]
    ELSE pb

StatsReport(pb, pkt) ==
    IF ReportDue(pb, pkt)
    THEN [pb EXCEPT !.expected_pkts = 0, !.received_pkts = 0,
                    !.last_display_ts = pkt.ts,
                    !.longest_gap = 0,
                    !.out_of_order_pkts = FALSE,
                    !.dups = FALSE]
    ELSE pb

\* the statistics part of pbuf_insert, up to the flush
StatsFlushed(pb, pkt) == StatsFlush(StatsMark(StatsInit(pb, pkt), pkt), pkt)

\* the whole statistics part of pbuf_insert
collect_statistics(pb, pkt) == StatsReport(StatsFlushed(pb, pkt), pkt)

(* ----------------------------- the frames ----------------------------- *)
\* a pbuf_node that is not allocated
FreeNode ==
    [alloc |-> FALSE, nxt |-> NULL, prv |-> NULL, rtp_timestamp |-> 0,
     arrival_time |-> 0, playout_time |-> 0, cdata |-> <<>>,
     decoded |-> 0, mbit |-> 0, completed |-> FALSE]

frame_complete(frame) == frame.mbit = 1 \/ frame.completed = TRUE

\* new struct pbuf_node(): the least free address
FreeAddrs == {a \in NodeIds : ~node[a].alloc}
NewAddr == MinOf(FreeAddrs)

create_new_pnode(pkt, playout_delay_us) ==
    [alloc |-> TRUE, nxt |-> NULL, prv |-> NULL,
     rtp_timestamp |-> pkt.ts,
     mbit |-> pkt.m,
     arrival_time |-> clock,
     playout_time |-> clock + playout_delay_us,
     cdata |-> <<[seqno |-> pkt.seq, data |-> pkt]>>,
     decoded |-> 0, completed |-> FALSE]

\* while (curr != NULL && (int16_t)(tmp->seqno - curr->seqno) < 0)
\* the position where the walk from position k stops, Len + 1 for
\* curr == NULL: the first position from k on where the test fails
ScanCdata(cdata, seqno, k) ==
    CHOOSE j \in k..(Len(cdata) + 1) :
        /\ j = Len(cdata) + 1 \/ ~(SDiff16(seqno, cdata[j].seqno) < 0)
        /\ \A i \in k..(j - 1) : SDiff16(seqno, cdata[i].seqno) < 0

InsertAt(s, k, e) == SubSeq(s, 1, k - 1) \o <<e>> \o SubSeq(s, k, Len(s))

\* the coded_data list of the frame after add_coded_unit
AddCdata(cdata, pkt) ==
    LET tmp == [seqno |-> pkt.seq, data |-> pkt]
    IN  IF SDiff16(tmp.seqno, cdata[1].seqno) > 0
        THEN <<tmp>> \o cdata
        ELSE LET k == ScanCdata(cdata, tmp.seqno, 1)
             IN  IF k = Len(cdata) + 1 THEN Append(cdata, tmp)
                 ELSE IF SDiff16(tmp.seqno, cdata[k].seqno) > 0
                      THEN InsertAt(cdata, k, tmp)
                      ELSE cdata

\* variant: node->mbit = pkt->m
add_coded_unit_assign(frame, pkt) ==
    [frame EXCEPT !.mbit = pkt.m,
                  !.cdata = AddCdata(@, pkt)]

\* the frame after add_coded_unit(frame, pkt)
add_coded_unit(frame, pkt) ==
    [frame EXCEPT !.mbit = IF @ = 1 \/ pkt.m = 1 THEN 1 ELSE 0,
                  !.cdata = AddCdata(@, pkt)]

\* variant: the packet that is not filed is not freed
AddFreesNever(frame, pkt) == FALSE

\* whether add_coded_unit(frame, pkt) frees the packet
AddFrees(frame, pkt) == AddCdata(frame.cdata, pkt) = frame.cdata

RECURSIVE ScanBack(_, _, _)
\* while (curr != playout_buf->frst && curr->rtp_timestamp > pkt->ts)
ScanBack(curr, frst, ts) ==
    IF curr # frst /\ node[curr].rtp_timestamp > ts
    THEN ScanBack(node[curr].prv, frst, ts)
    ELSE curr

(* ------------------------------ the calls ----------------------------- *)
NoPkt == [ts |-> 0, seq |-> 0, m |-> 0]

\* the record of a call: op, the packet (pbuf_insert), the value returned,
\* the callback invocations (frame address, coded data, statistics handed
\* over), the packets freed, whether a report was printed
CallRec(op, pkt, ret, cb, freed, report) ==
    [op |-> op, pkt |-> pkt, ret |-> ret, cb |-> cb,
     freed |-> freed, report |-> report]

\* the sequence numbers of a coded_data list
SeqsOf(cdata) == {cdata[k].seqno : k \in 1..Len(cdata)}

\* the packets of a coded_data list
Pkts(cdata) == {cdata[k].data : k \in 1..Len(cdata)}

\* pbuf_is_empty(playout_buf)
pbuf_is_empty == IF playout_buf.frst = NULL THEN TRUE ELSE FALSE

\* pbuf_init
Init ==
    /\ playout_buf =
         [frst |-> NULL, last |-> NULL,
          playout_delay_us |-> InitialDelayUs,
          packets |-> {},
          last_report_seq |-> -1,
          received_pkts |-> 0, expected_pkts |-> 0,
          received_pkts_cum |-> 0, expected_pkts_cum |-> 0,
          last_display_ts |-> 0,
          longest_gap |-> 0,
          out_of_order_pkts |-> FALSE,
          dups |-> FALSE]
    /\ node = [a \in NodeIds |-> FreeNode]
    /\ offset_ms = 0
    /\ clock = 0
    /\ ninserts = 0
    /\ call = CallRec("init", NoPkt, 0, <<>>, {}, FALSE)
    /\ decode_data = <<>>

\* the delay handed to create_new_pnode
FrameDelay == playout_buf.playout_delay_us + 1000 * offset_ms

\* pbuf_insert: the store is empty
InsertEmpty(pb, pkt, report) ==
    /\ pb.frst = NULL /\ pb.last = NULL
    /\ FreeAddrs # {}
    /\ node' = [node EXCEPT ![NewAddr] = create_new_pnode(pkt, FrameDelay)]
    /\ playout_buf' = [pb EXCEPT !.frst = NewAddr, !.last = NewAddr]
    /\ call' = CallRec("insert", pkt, 0, <<>>, {}, report)

\* pbuf_insert: the packet belongs to the last frame
InsertLast(pb, pkt, report) ==
    /\ ~(pb.frst = NULL /\ pb.last = NULL)
    /\ node[pb.last].rtp_timestamp = pkt.ts
    /\ node' = [node EXCEPT ![pb.last] = add_coded_unit(@, pkt)]
    /\ playout_buf' = pb
    /\ call' = CallRec("insert", pkt, 0, <<>>,
                       IF AddFrees(node[pb.last], pkt) THEN {pkt} ELSE {},
                       report)

\* variant: every packet that is not of the last frame opens a new frame
InsertNewAlways(pb, pkt, report) ==
    /\ ~(pb.frst = NULL /\ pb.last = NULL)
    /\ node[pb.last].rtp_timestamp # pkt.ts
    /\ FreeAddrs # {}
    /\ node' = [node EXCEPT
                  ![pb.last].nxt = NewAddr,
                  ![pb.last].completed = TRUE,
                  ![NewAddr] = [create_new_pnode(pkt, FrameDelay)
                                  EXCEPT !.prv = pb.last]]
    /\ playout_buf' = [pb EXCEPT !.last = NewAddr]
    /\ call' = CallRec("insert", pkt, 0, <<>>, {}, report)

\* variant: the old last frame is not marked completed
InsertNewUnmarked(pb, pkt, report) ==
    /\ ~(pb.frst = NULL /\ pb.last = NULL)
    /\ node[pb.last].rtp_timestamp < pkt.ts
    /\ FreeAddrs # {}
    /\ node' = [node EXCEPT
                  ![pb.last].nxt = NewAddr,
                  ![NewAddr] = [create_new_pnode(pkt, FrameDelay)
                                  EXCEPT !.prv = pb.last]]
    /\ playout_buf' = [pb EXCEPT !.last = NewAddr]
    /\ call' = CallRec("insert", pkt, 0, <<>>, {}, report)

\* pbuf_insert: the packet belongs to a new frame
InsertNew(pb, pkt, report) ==
    /\ ~(pb.frst = NULL /\ pb.last = NULL)
    /\ node[pb.last].rtp_timestamp < pkt.ts
    /\ FreeAddrs # {}
    /\ node' = [node EXCEPT
                  ![pb.last].nxt = NewAddr,
                  ![pb.last].completed = TRUE,
                  ![NewAddr] = [create_new_pnode(pkt, FrameDelay)
                                  EXCEPT !.prv = pb.last]]
    /\ playout_buf' = [pb EXCEPT !.last = NewAddr]
    /\ call' = CallRec("insert", pkt, 0, <<>>, {}, report)

\* variant: the frame the backward scan stops at takes the packet, without
\* the test of its timestamp
InsertOldNoCheck(pb, pkt, report) ==
    /\ ~(pb.frst = NULL /\ pb.last = NULL)
    /\ node[pb.last].rtp_timestamp > pkt.ts
    /\ LET curr == ScanBack(pb.last, pb.frst, pkt.ts)
           discard_pkt == node[pb.frst].rtp_timestamp > pkt.ts
       IN  /\ node' = IF discard_pkt THEN node
                      ELSE [node EXCEPT ![curr] = add_coded_unit(@, pkt)]
           /\ call' = CallRec("insert", pkt, 0, <<>>,
                        IF discard_pkt \/ AddFrees(node[curr], pkt)
                        THEN {pkt} ELSE {},
                        report)
    /\ playout_buf' = pb

\* variant: a discarded packet leaves the statistics as they were
InsertOldNoStats(pb, pkt, report) ==
    /\ ~(pb.frst = NULL /\ pb.last = NULL)
    /\ node[pb.last].rtp_timestamp > pkt.ts
    /\ LET curr == ScanBack(pb.last, pb.frst, pkt.ts)
           discard_pkt ==
               \/ node[pb.frst].rtp_timestamp > pkt.ts
               \/ node[curr].rtp_timestamp # pkt.ts
       IN  /\ node' = IF discard_pkt THEN node
                      ELSE [node EXCEPT ![curr] = add_coded_unit(@, pkt)]
           /\ call' = CallRec("insert", pkt, 0, <<>>,
                        IF discard_pkt \/ AddFrees(node[curr], pkt)
                        THEN {pkt} ELSE {},
                        report)
           /\ playout_buf' = IF discard_pkt THEN playout_buf ELSE pb

\* pbuf_insert: the packet belongs to a previous frame
InsertOld(pb, pkt, report) ==
    /\ ~(pb.frst = NULL /\ pb.last = NULL)
    /\ node[pb.last].rtp_timestamp > pkt.ts
    /\ LET curr == ScanBack(pb.last, pb.frst, pkt.ts)
           discard_pkt ==
               \/ node[pb.frst].rtp_timestamp > pkt.ts
               \/ node[curr].rtp_timestamp # pkt.ts
       IN  /\ node' = IF discard_pkt THEN node
                      ELSE [node EXCEPT ![curr] = add_coded_unit(@, pkt)]
           /\ call' = CallRec("insert", pkt, 0, <<>>,
                        IF discard_pkt \/ AddFrees(node[curr], pkt)
                        THEN {pkt} ELSE {},
                        report)
    /\ playout_buf' = pb

pbuf_insert(pkt) ==
    /\ ninserts' = ninserts + 1
    /\ LET flushed == StatsFlushed(playout_buf, pkt)
           report  == ReportDue(flushed, pkt)
           pb      == StatsReport(flushed, pkt)
       IN  \/ InsertEmpty(pb, pkt, report)
           \/ InsertLast(pb, pkt, report)
           \/ InsertNew(pb, pkt, report)
           \/ InsertOld(pb, pkt, report)
    /\ UNCHANGED <<offset_ms, clock, decode_data>>

\* a loss-free stream in order: the next sequence number, any timestamp,
\* marker or not
StreamPackets ==
    {[ts |-> t, seq |-> U16(SeqStart + ninserts), m |-> m] :
        t \in Timestamps, m \in {0, 1}}

Insert ==
    /\ ninserts < MaxInserts
    /\ \E pkt \in StreamPackets : pbuf_insert(pkt)

\* a reordering and duplicating network: the packets of the first frame,
\* any of the sequence numbers
NetPackets ==
    {[ts |-> 100, seq |-> s, m |-> m] : s \in Seqs, m \in {0, 1}}

InsertNet ==
    /\ ninserts < MaxNetInserts
    /\ \E pkt \in NetPackets : pbuf_insert(pkt)

\* variant: curr_time >= playout_time
RemoveDueGe(frame, curr_time) ==
    curr_time >= frame.playout_time /\ frame_complete(frame)

\* variant: without the test of frame_complete
RemoveDueAny(frame, curr_time) ==
    curr_time > frame.playout_time

\* the test of pbuf_remove on a frame
RemoveDue(frame, curr_time) ==
    curr_time > frame.playout_time /\ frame_complete(frame)

RECURSIVE RemoveWalkKeepLast(_, _, _, _, _)
\* variant: playout_buf->last is left as it is when the last frame is freed
RemoveWalkKeepLast(curr, pb, nd, curr_time, freed) ==
    IF curr = NULL THEN [pb |-> pb, node |-> nd, freed |-> freed]
    ELSE LET temp == nd[curr].nxt
             prv  == nd[curr].prv
             pb1  == [pb EXCEPT
                        !.frst = IF curr = pb.frst THEN temp ELSE @]
             nd1  == [a \in NodeIds |->
                        IF a = curr THEN FreeNode
                        ELSE [nd[a] EXCEPT
                                !.prv = IF a = temp THEN prv ELSE @,
                                !.nxt = IF a = prv THEN temp ELSE @]]
         IN  IF RemoveDue(nd[curr], curr_time)
             THEN RemoveWalkKeepLast(temp, pb1, nd1, curr_time,
                                     freed \cup Pkts(nd[curr].cdata))
             ELSE [pb |-> pb, node |-> nd, freed |-> freed]

RECURSIVE RemoveWalk(_, _, _, _, _)
\* the loop of pbuf_remove from curr on: the buffer, the heap and the
\* packets freed
RemoveWalk(curr, pb, nd, curr_time, freed) ==
    IF curr = NULL THEN [pb |-> pb, node |-> nd, freed |-> freed]
    ELSE LET temp == nd[curr].nxt
             prv  == nd[curr].prv
             pb1  == [pb EXCEPT
                        !.frst = IF curr = pb.frst THEN temp ELSE @,
                        !.last = IF curr = pb.last THEN prv ELSE @]
             nd1  == [a \in NodeIds |->
                        IF a = curr THEN FreeNode
                        ELSE [nd[a] EXCEPT
                                !.prv = IF a = temp THEN prv ELSE @,
                                !.nxt = IF a = prv THEN temp ELSE @]]
         IN  IF RemoveDue(nd[curr], curr_time)
             THEN RemoveWalk(temp, pb1, nd1, curr_time,
                             freed \cup Pkts(nd[curr].cdata))
             ELSE [pb |-> pb, node |-> nd, freed |-> freed]

pbuf_remove(curr_time) ==
    LET r == RemoveWalk(playout_buf.frst, playout_buf, node, curr_time, {})
    IN  /\ playout_buf' = r.pb
        /\ node' = r.node
        /\ call' = CallRec("remove", NoPkt, 0, <<>>, r.freed, FALSE)
        /\ UNCHANGED <<offset_ms, clock, ninserts, decode_data>>

Remove == pbuf_remove(clock)

\* variant: curr_time >= playout_time
DecodeDueGe(frame, curr_time) ==
    frame.decoded = 0 /\ curr_time >= frame.playout_time

\* variant: without the test of decoded
DecodeDueAgain(frame, curr_time) ==
    curr_time > frame.playout_time

\* the test of pbuf_decode on a frame
DecodeDue(frame, curr_time) ==
    frame.decoded = 0 /\ curr_time > frame.playout_time

RECURSIVE DecodeWalkNoGrace(_, _, _, _)
\* variant: an incomplete frame past its playout time is marked completed
\* without the test of the grace period
DecodeWalkNoGrace(curr, nd, curr_time, decode_result) ==
    IF curr = NULL THEN [node |-> nd, cb |-> <<>>, ret |-> 0]
    ELSE IF DecodeDue(nd[curr], curr_time)
         THEN IF frame_complete(nd[curr])
              THEN [node |-> [nd EXCEPT ![curr].decoded = 1],
                    cb   |-> <<[frame |-> curr,
                                cdata |-> nd[curr].cdata,
                                stats |-> [received_pkts_cum |->
                                               playout_buf.received_pkts_cum,
                                           expected_pkts_cum |->
                                               playout_buf.expected_pkts_cum],
                                result |-> decode_result]>>,
                    ret  |-> decode_result]
              ELSE DecodeWalkNoGrace(nd[curr].nxt,
                       [nd EXCEPT ![curr].completed = TRUE],
                       curr_time, decode_result)
         ELSE DecodeWalkNoGrace(nd[curr].nxt, nd, curr_time, decode_result)

RECURSIVE DecodeWalkEager(_, _, _, _)
\* variant: a frame marked completed after the grace period is handed to
\* decode_func at once
DecodeWalkEager(curr, nd, curr_time, decode_result) ==
    IF curr = NULL THEN [node |-> nd, cb |-> <<>>, ret |-> 0]
    ELSE IF DecodeDue(nd[curr], curr_time)
         THEN IF \/ frame_complete(nd[curr])
                 \/ curr_time > nd[curr].playout_time + GracePeriod
              THEN [node |-> [nd EXCEPT
                                ![curr].decoded = 1,
                                ![curr].completed =
                                    @ \/ ~frame_complete(nd[curr])],
                    cb   |-> <<[frame |-> curr,
                                cdata |-> nd[curr].cdata,
                                stats |-> [received_pkts_cum |->
                                               playout_buf.received_pkts_cum,
                                           expected_pkts_cum |->
                                               playout_buf.expected_pkts_cum],
                                result |-> decode_result]>>,
                    ret  |-> decode_result]
              ELSE DecodeWalkEager(nd[curr].nxt, nd, curr_time,
                                   decode_result)
         ELSE DecodeWalkEager(nd[curr].nxt, nd, curr_time, decode_result)

RECURSIVE DecodeWalkAny(_, _, _, _)
\* variant: the first undecoded frame past its playout time is handed to
\* decode_func without the test of frame_complete
DecodeWalkAny(curr, nd, curr_time, decode_result) ==
    IF curr = NULL THEN [node |-> nd, cb |-> <<>>, ret |-> 0]
    ELSE IF DecodeDue(nd[curr], curr_time)
         THEN [node |-> [nd EXCEPT ![curr].decoded = 1],
               cb   |-> <<[frame |-> curr,
                           cdata |-> nd[curr].cdata,
                           stats |-> [received_pkts_cum |->
                                          playout_buf.received_pkts_cum,
                                      expected_pkts_cum |->
                                          playout_buf.expected_pkts_cum],
                           result |-> decode_result]>>,
               ret  |-> decode_result]
         ELSE DecodeWalkAny(nd[curr].nxt, nd, curr_time, decode_result)

RECURSIVE DecodeWalkNoForce(_, _, _, _)
\* variant: an incomplete frame is never marked completed
DecodeWalkNoForce(curr, nd, curr_time, decode_result) ==
    IF curr = NULL THEN [node |-> nd, cb |-> <<>>, ret |-> 0]
    ELSE IF DecodeDue(nd[curr], curr_time)
         THEN IF frame_complete(nd[curr])
              THEN [node |-> [nd EXCEPT ![curr].decoded = 1],
                    cb   |-> <<[frame |-> curr,
                                cdata |-> nd[curr].cdata,
                                stats |-> [received_pkts_cum |->
                                               playout_buf.received_pkts_cum,
                                           expected_pkts_cum |->
                                               playout_buf.expected_pkts_cum],
                                result |-> decode_result]>>,
                    ret  |-> decode_result]
              ELSE DecodeWalkNoForce(nd[curr].nxt, nd, curr_time,
                                     decode_result)
         ELSE DecodeWalkNoForce(nd[curr].nxt, nd, curr_time, decode_result)

RECURSIVE DecodeWalk(_, _, _, _)
\* the loop of pbuf_decode from curr on, decode_func returning
\* decode_result: the heap, the callback invocations and the value returned
DecodeWalk(curr, nd, curr_time, decode_result) ==
    IF curr = NULL THEN [node |-> nd, cb |-> <<>>, ret |-> 0]
    ELSE IF DecodeDue(nd[curr], curr_time)
         THEN IF frame_complete(nd[curr])
              THEN [node |-> [nd EXCEPT ![curr].decoded = 1],
                    cb   |-> <<[frame |-> curr,
                                cdata |-> nd[curr].cdata,
                                stats |-> [received_pkts_cum |->
                                               playout_buf.received_pkts_cum,
                                           expected_pkts_cum |->
                                               playout_buf.expected_pkts_cum],
                                result |-> decode_result]>>,
                    ret  |-> decode_result]
              ELSE DecodeWalk(nd[curr].nxt,
                       IF curr_time > nd[curr].playout_time + GracePeriod
                       THEN [nd EXCEPT ![curr].completed = TRUE]
                       ELSE nd,
                       curr_time, decode_result)
         ELSE DecodeWalk(nd[curr].nxt, nd, curr_time, decode_result)

pbuf_decode(curr_time, decode_result) ==
    LET r == DecodeWalk(playout_buf.frst, node, curr_time, decode_result)
    IN  /\ node' = r.node
        /\ call' = CallRec("decode", NoPkt, r.ret, r.cb, {}, FALSE)
        /\ decode_data' =
               decode_data
                   \o [k \in 1..Len(r.cb) |-> node[r.cb[k].frame].rtp_timestamp]
        /\ UNCHANGED <<playout_buf, offset_ms, clock, ninserts>>

Decode == \E res \in CallbackResults : pbuf_decode(clock, res)

RECURSIVE DestroyWalk(_, _, _, _)
\* the loop of pbuf_destroy from curr on: the buffer, the heap and the
\* packets freed
DestroyWalk(curr, pb, nd, freed) ==
    IF curr = NULL THEN [pb |-> pb, node |-> nd, freed |-> freed]
    ELSE LET temp == nd[curr].nxt
             prv  == nd[curr].prv
             pb1  == [pb EXCEPT
                        !.frst = IF curr = pb.frst THEN temp ELSE @,
                        !.last = IF curr = pb.last THEN prv ELSE @]
             nd1  == [a \in NodeIds |->
                        IF a = curr THEN FreeNode
                        ELSE [nd[a] EXCEPT
                                !.prv = IF a = temp THEN prv ELSE @,
                                !.nxt = IF a = prv THEN temp ELSE @]]
         IN  DestroyWalk(temp, pb1, nd1, freed \cup Pkts(nd[curr].cdata))

\* variant: only the first frame is freed
pbuf_destroy_first ==
    LET r == IF playout_buf.frst = NULL
             THEN [pb |-> playout_buf, node |-> node, freed |-> {}]
             ELSE DestroyWalk(playout_buf.frst,
                              playout_buf,
                              [node EXCEPT ![playout_buf.frst].nxt = NULL],
                              {})
    IN  /\ playout_buf' = r.pb
        /\ node' = r.node
        /\ call' = CallRec("destroy", NoPkt, 0, <<>>, r.freed,
                           playout_buf.received_pkts_cum # 0)
        /\ UNCHANGED <<offset_ms, clock, ninserts, decode_data>>

\* pbuf_destroy: the summary is printed if received_pkts_cum is non-zero
\* (recorded as the report of the call), every frame is freed; the struct
\* itself is freed last and not used again
pbuf_destroy ==
    LET r == DestroyWalk(playout_buf.frst, playout_buf, node, {})
    IN  /\ playout_buf' = r.pb
        /\ node' = r.node
        /\ call' = CallRec("destroy", NoPkt, 0, <<>>, r.freed,
                           playout_buf.received_pkts_cum # 0)
        /\ UNCHANGED <<offset_ms, clock, ninserts, decode_data>>

\* the buffer has not been destroyed
Alive == call.op # "destroy"

Destroy == Alive /\ pbuf_destroy

\* variant: the frames held are given the new delay as well
pbuf_set_playout_delay_retime(playout_delay_us) ==
    /\ playout_buf.playout_delay_us # playout_delay_us
    /\ playout_buf' = [playout_buf EXCEPT !.playout_delay_us = playout_delay_us]
    /\ node' = [a \in NodeIds |->
                  IF node[a].alloc
                  THEN [node[a] EXCEPT
                          !.playout_time =
                              node[a].arrival_time + playout_delay_us]
                  ELSE node[a]]
    /\ call' = CallRec("set_playout_delay", NoPkt, 0, <<>>, {}, FALSE)
    /\ UNCHANGED <<offset_ms, clock, ninserts, decode_data>>

\* playout_delay_us is the number of microseconds of the double handed over
pbuf_set_playout_delay(playout_delay_us) ==
    /\ playout_buf.playout_delay_us # playout_delay_us
    /\ playout_buf' = [playout_buf EXCEPT !.playout_delay_us = playout_delay_us]
    /\ call' = CallRec("set_playout_delay", NoPkt, 0, <<>>, {}, FALSE)
    /\ UNCHANGED <<node, offset_ms, clock, ninserts, decode_data>>

SetPlayoutDelay == \E d \in Delays : pbuf_set_playout_delay(d)

\* the owner of the live offset writes *offset_ms
SetOffset ==
    \E o \in Offsets \ {offset_ms} :
        /\ offset_ms' = o
        /\ call' = CallRec("set_offset", NoPkt, 0, <<>>, {}, FALSE)
        /\ UNCHANGED <<playout_buf, node, clock, ninserts, decode_data>>

\* the number of clock advances so far
NTicks == 2 * (clock \div (InitialDelayUs + GracePeriod))
            + (IF clock % (InitialDelayUs + GracePeriod) = 0 THEN 0 ELSE 1)

\* the clock is looked at when it has advanced by the initial playout delay
\* and by the grace period in turn
TickStep == IF NTicks % 2 = 0 THEN InitialDelayUs ELSE GracePeriod

Tick ==
    /\ NTicks < MaxTicks
    /\ clock' = clock + TickStep
    /\ call' = CallRec("tick", NoPkt, 0, <<>>, {}, FALSE)
    /\ UNCHANGED <<playout_buf, node, offset_ms, ninserts, decode_data>>

Next ==
    \/ Insert
    \/ Decode
    \/ Remove
    \/ SetPlayoutDelay
    \/ Tick

Spec == Init /\ [][Next]_vars

\* the same buffer fed by the reordering network
NextNet ==
    \/ InsertNet
    \/ Remove
    \/ Tick

SpecNet == Init /\ [][NextNet]_vars

\* the buffer while its delay and its live offset are changed
NextDelay ==
    \/ Insert
    \/ SetPlayoutDelay
    \/ SetOffset
    \/ Tick

SpecDelay == Init /\ [][NextDelay]_vars

\* the life of a buffer fed by the stream and by the reordering network, up
\* to pbuf_destroy
NextLife ==
    \/ Alive /\ Insert
    \/ Alive /\ InsertNet
    \/ Destroy

SpecLife == Init /\ [][NextLife]_vars

\* a long stream in order on one timestamp: it starts at one of StreamStarts
\* and goes on with the number after the highest one held, or, once, with
\* the number after a number of GapSeqs (that number is lost)
StreamHead == node[playout_buf.frst].cdata[1].seqno
StreamFirst ==
    node[playout_buf.frst].cdata[Len(node[playout_buf.frst].cdata)].seqno
StreamGapFree ==
    Len(node[playout_buf.frst].cdata) = U16(StreamHead - StreamFirst) + 1

LongStreamPackets ==
    IF playout_buf.frst = NULL
    THEN {[ts |-> 100, seq |-> s, m |-> 0] : s \in StreamStarts}
    ELSE LET nxt == U16(StreamHead + 1)
         IN  {[ts |-> 100, seq |-> nxt, m |-> 0]}
               \cup {[ts |-> 100, seq |-> U16(nxt + 1), m |-> 0] :
                        g \in {x \in GapSeqs : x = nxt /\ StreamGapFree}}

InsertLong ==
    /\ ninserts < MaxStream
    /\ \E pkt \in LongStreamPackets : pbuf_insert(pkt)

NextLong == InsertLong

SpecLong == Init /\ [][NextLong]_vars

\* a long stream in order on one timestamp that loses bursts: it goes on
\* with the number after the highest one held, or, when that number is one
\* of BurstStarts, with the number a burst length later
BurstStreamPackets ==
    IF playout_buf.frst = NULL
    THEN {[ts |-> 100, seq |-> s, m |-> 0] : s \in StreamStarts}
    ELSE LET nxt == U16(StreamHead + 1)
         IN  {[ts |-> 100, seq |-> U16(nxt + len), m |-> 0] :
                 len \in {0} \cup {l \in BurstLens : nxt \in BurstStarts}}

InsertBurst ==
    /\ ninserts < MaxStream
    /\ \E pkt \in BurstStreamPackets : pbuf_insert(pkt)

NextBurst == InsertBurst

SpecBurst == Init /\ [][NextBurst]_vars

\* a long stream in order that starts two numbers before the 16-bit
\* boundary: a packet keeps the timestamp of the packet before it, except
\* the first two packets of a window of the statistics, which may take any
\* of ReportTimestamps (a newer frame, or a packet late for an older one)
ReportStreamPackets ==
    LET seq == U16(SeqMod - 2 + ninserts)
    IN  {[ts |-> t, seq |-> seq, m |-> 0] :
            t \in IF ninserts = 0 THEN {100}
                  ELSE IF seq % STATS_INTERVAL \in {0, 1}
                       THEN ReportTimestamps
                       ELSE {call.pkt.ts}}

InsertReport ==
    /\ ninserts < MaxStream
    /\ \E pkt \in ReportStreamPackets : pbuf_insert(pkt)

NextReport == InsertReport

SpecReport == Init /\ [][NextReport]_vars

\* a long stream on one timestamp that delivers some packets late: it goes
\* on with the number after the highest one held, or skips that number
\* when it is one of LateSeqs; a number skipped arrives at any later moment
\* or never
LateStreamPackets ==
    IF playout_buf.frst = NULL
    THEN {[ts |-> 100, seq |-> s, m |-> 0] : s \in StreamStarts}
    ELSE LET nxt  == U16(StreamHead + 1)
             held == SeqsOf(node[playout_buf.frst].cdata)
         IN  {[ts |-> 100, seq |-> s, m |-> 0] :
                 s \in {nxt}
                        \cup {U16(nxt + 1) : x \in {nxt} \cap LateSeqs}
                        \cup {x \in LateSeqs \ held :
                                 /\ SDiff16(x, StreamHead) < 0
                                 /\ SDiff16(x, StreamFirst) > 0}}

InsertLate ==
    /\ ninserts < MaxStream
    /\ \E pkt \in LateStreamPackets : pbuf_insert(pkt)

NextLate == InsertLate

SpecLate == Init /\ [][NextLate]_vars

\* one frame fed with any of PairSeqs in any order
PairPackets == {[ts |-> 100, seq |-> s, m |-> 0] : s \in PairSeqs}

InsertPair ==
    /\ ninserts < MaxPairInserts
    /\ \E pkt \in PairPackets : pbuf_insert(pkt)

NextPair == InsertPair

SpecPair == Init /\ [][NextPair]_vars

\* the buffer while the clock runs on and pbuf_decode and pbuf_remove are
\* called again and again (the receiver thread calls both in its loop):
\* packets arrive while three clock advances are still to come, the time a
\* frame needs to get past its playout time and its grace period
InsertInTime ==
    /\ NTicks + 3 <= MaxTicks
    /\ Insert

NextLive ==
    \/ InsertInTime
    \/ Decode
    \/ Remove
    \/ Tick

SpecLive ==
    /\ Init /\ [][NextLive]_vars
    /\ WF_vars(Tick) /\ WF_vars(Decode) /\ WF_vars(Remove)

\* a stream of any sequence numbers, reordered, with late packets and
\* jumps, with and without a report due
CursorPackets ==
    {[ts |-> t, seq |-> s, m |-> 0] : t \in CursorTimestamps, s \in CursorSeqs}

InsertCursor ==
    /\ ninserts < MaxCursorInserts
    /\ \E pkt \in CursorPackets : pbuf_insert(pkt)

NextCursor == InsertCursor

SpecCursor == Init /\ [][NextCursor]_vars

\* the packets of a buffer over its life: the stream and the reordering
\* network feed it, pbuf_remove frees the frames due, pbuf_destroy the rest
NextOwn ==
    \/ Alive /\ Insert
    \/ Alive /\ InsertNet
    \/ Alive /\ Remove
    \/ Alive /\ Tick
    \/ Destroy

SpecOwn == Init /\ [][NextOwn]_vars

(* --------------------------- reading the state ------------------------ *)
RECURSIVE ListFrom(_, _, _)
\* the addresses from curr along nxt in heap nd (at most n of them)
ListFrom(curr, nd, n) ==
    IF curr = NULL \/ n = 0 THEN <<>>
    ELSE <<curr>> \o ListFrom(nd[curr].nxt, nd, n - 1)

\* the frame sequence from head to tail, as addresses
FrameList == ListFrom(playout_buf.frst, node, NumTs + 1)

(* ------------------------- reading for the claims --------------------- *)
\* the allocated frames
Alloc == {a \in NodeIds : node[a].alloc}

\* marker-seen or completed, read off the flags
Complete(f) == f.mbit = 1 \/ f.completed

\* what a frame holds, without its links
Content(f) ==
    [rtp_timestamp |-> f.rtp_timestamp, arrival_time |-> f.arrival_time,
     playout_time |-> f.playout_time, cdata |-> f.cdata,
     decoded |-> f.decoded, mbit |-> f.mbit, completed |-> f.completed]

\* p comes after q in the 16-bit circle, by less than half of it
WrapAfter(p, q) == ((p - q) % 65536) \in 1..32767

\* no two of the packets are exactly half the circle apart
NoHalfApart(cdata) ==
    \A s, t \in SeqsOf(cdata) : (s - t) % 65536 # 32768

\* the frame is freed by this step
Evicted(a) == node[a].alloc /\ ~node'[a].alloc

(* -------------------------------- C1 ---------------------------------- *)
\* C1: in every reachable state the frames from head to tail are in
\* strictly increasing order of media timestamp, and they are all the
\* allocated frames.
C1_FramesSorted ==
    /\ \A k \in 1..(Len(FrameList) - 1) :
          node[FrameList[k]].rtp_timestamp
              < node[FrameList[k + 1]].rtp_timestamp
    /\ {FrameList[k] : k \in 1..Len(FrameList)} = Alloc
    /\ Len(FrameList) = Cardinality(Alloc)

\* a packet with a timestamp below the last frame's has just been inserted
\* while two frames are held
C1_Witness ==
    /\ call.op = "insert"
    /\ Len(FrameList) = 2
    /\ call.pkt.ts < node[playout_buf.last].rtp_timestamp

C3_CompleteStays ==
    [][\A a \in NodeIds :
          (node[a].alloc /\ node'[a].alloc /\ Complete(node[a]))
              => Complete(node'[a])]_vars

\* a frame complete by its marker has then taken a packet without marker
C3_Witness ==
    /\ call.op = "insert"
    /\ call.pkt.m = 0
    /\ call.freed = {}
    /\ \E a \in Alloc :
          /\ node[a].rtp_timestamp = call.pkt.ts
          /\ Len(node[a].cdata) >= 2
          /\ node[a].mbit = 1
          /\ ~node[a].completed

(* -------------------------------- C4 ---------------------------------- *)
\* C4: a frame pbuf_remove frees is decoded or forced complete (completed);
\* a frame complete by its marker only and not yet decoded is not freed.
C4_EvictedDecodedOrForced ==
    [][call'.op = "remove" =>
          \A a \in NodeIds :
              Evicted(a) => (node[a].decoded = 1 \/ node[a].completed)]_vars

(* -------------------------------- C5 ---------------------------------- *)
\* the positions of the frames that are undecoded, due and complete
Decodable ==
    {k \in 1..Len(FrameList) :
        LET f == node[FrameList[k]]
        IN  f.decoded = 0 /\ clock > f.playout_time /\ Complete(f)}

\* C5: pbuf_decode(now) calls decode_func at most once, on the first frame
\* from the head that is undecoded, due and complete, with its coded data;
\* it sets the decoded flag of that frame and of no other, and returns what
\* decode_func returned.  With no such frame it returns 0, calls nothing
\* and sets no decoded flag.
C5_DecodeFirst ==
    [][call'.op = "decode" =>
          IF Decodable = {}
          THEN /\ call'.cb = <<>>
               /\ call'.ret = 0
               /\ \A a \in NodeIds : node'[a].decoded = node[a].decoded
          ELSE LET k == CHOOSE j \in Decodable : \A i \in Decodable : j <= i
                   a == FrameList[k]
               IN  /\ Len(call'.cb) = 1
                   /\ call'.cb[1].frame = a
                   /\ call'.cb[1].cdata = node[a].cdata
                   /\ call'.ret = call'.cb[1].result
                   /\ node'[a].decoded = 1
                   /\ \A b \in NodeIds \ {a} :
                          node'[b].decoded = node[b].decoded]_vars

\* pbuf_decode has passed over the head and handed a later frame to
\* decode_func, which returned 1
C5_Witness ==
    /\ call.op = "decode"
    /\ Len(call.cb) = 1
    /\ call.cb[1].frame # playout_buf.frst
    /\ call.ret = 1

(* -------------------------------- C6 ---------------------------------- *)
\* how many frames from the head on are past their playout time and complete
DuePrefix ==
    Cardinality({j \in 1..Len(FrameList) :
        \A i \in 1..j :
            LET f == node[FrameList[i]]
            IN  clock > f.playout_time /\ Complete(f)})

C7_Descending ==
    \A a \in Alloc :
        LET cdata == node[a].cdata
        IN  \A k \in 1..(Len(cdata) - 1) :
                WrapAfter(cdata[k].seqno, cdata[k + 1].seqno)

\* C7 amended: the same, for the frames no two packets of which are exactly
\* 32768 sequence numbers apart.
C7_DescendingNoHalf ==
    \A a \in Alloc :
        LET cdata == node[a].cdata
        IN  NoHalfApart(cdata) =>
                \A k \in 1..(Len(cdata) - 1) :
                    WrapAfter(cdata[k].seqno, cdata[k + 1].seqno)

\* seq 0 has arrived after 65535 and 1 and sits between them, across the
\* wrap of the sequence number
C7_Witness ==
    /\ call.op = "insert"
    /\ call.pkt.seq = 0
    /\ call.freed = {}
    /\ \E a \in Alloc :
          /\ Len(node[a].cdata) = 3
          /\ [k \in 1..3 |-> node[a].cdata[k].seqno] = <<1, 0, 65535>>

(* -------------------------------- C8 ---------------------------------- *)
\* C8 (its consequence, for every sequence of insertions): no frame ever
\* holds two packets with the same sequence number.
C8_NoRepeatedSeq ==
    \A a \in Alloc :
        Cardinality(SeqsOf(node[a].cdata)) = Len(node[a].cdata)

(* -------------------------------- C9 ---------------------------------- *)
\* the step is a pbuf_insert of a packet with a timestamp above the last
\* frame's
InsertsAboveLast ==
    /\ call'.op = "insert"
    /\ playout_buf.last # NULL
    /\ call'.pkt.ts > node[playout_buf.last].rtp_timestamp

C10_DecodeEarly ==
    [][(call'.op = "decode"
            /\ \A a \in Alloc : clock <= node[a].playout_time) =>
          /\ call'.ret = 0
          /\ call'.cb = <<>>
          /\ node' = node
          /\ playout_buf' = playout_buf]_vars

\* pbuf_decode has run at the very playout time of a frame complete by its
\* marker, no frame being due
C10_Witness ==
    /\ call.op = "decode"
    /\ call.cb = <<>>
    /\ playout_buf.frst # NULL
    /\ \A a \in Alloc : clock <= node[a].playout_time
    /\ \E a \in Alloc :
          node[a].mbit = 1 /\ node[a].decoded = 0
              /\ clock = node[a].playout_time

(* -------------------------------- C11 --------------------------------- *)
\* C11: in every reachable state the cumulative received count is not
\* above the cumulative expected count, also when sequence numbers arrive
\* reordered and duplicated.
C11_ReceivedLeExpected ==
    playout_buf.received_pkts_cum <= playout_buf.expected_pkts_cum

\* a flush has added to the cumulative counts after a duplicate and a
\* packet out of order were seen
C11_Witness ==
    /\ playout_buf.received_pkts_cum > 0
    /\ playout_buf.dups
    /\ playout_buf.out_of_order_pkts

(* -------------------------------- C12 --------------------------------- *)
\* the cursor the first packet of the long stream has set
StreamCursor0 == (StreamFirst \div STATS_INTERVAL) * STATS_INTERVAL

\* C12: for a stream of consecutive sequence numbers without loss, also
\* across the 16-bit boundary, the expected count is the number of slots
\* the cursor has passed, which all lie before the newest packet, the
\* received count equals the expected count (cumulative counts as well),
\* and the longest gap stays 0.
C12_WrapNoLoss ==
    (playout_buf.frst # NULL /\ StreamGapFree) =>
        /\ playout_buf.expected_pkts
               = U16(playout_buf.last_report_seq - StreamCursor0)
        /\ playout_buf.expected_pkts <= U16(StreamHead - StreamCursor0)
        /\ playout_buf.received_pkts = playout_buf.expected_pkts
        /\ playout_buf.received_pkts_cum = playout_buf.expected_pkts_cum
        /\ playout_buf.longest_gap = 0

\* a stream without loss that started at 65534 has flushed the window
\* before the boundary and the window after it
C12_Witness ==
    /\ playout_buf.frst # NULL
    /\ StreamGapFree
    /\ StreamFirst = SeqMod - 2
    /\ playout_buf.last_report_seq = STATS_INTERVAL
    /\ playout_buf.expected_pkts = 2 * STATS_INTERVAL

(* -------------------------------- C13 --------------------------------- *)
\* C13 as stated (scenario D): the numbers 0..129 but 50 have been inserted
\* and their window has been flushed; the received count is 129, the
\* expected count 130 and the longest gap at least 1.
C13_ScenarioD ==
    (/\ playout_buf.frst # NULL
     /\ StreamFirst = 0
     /\ ~StreamGapFree
     /\ playout_buf.last_report_seq = STATS_INTERVAL) =>
        /\ playout_buf.received_pkts = 129
        /\ playout_buf.expected_pkts = 130
        /\ playout_buf.longest_gap >= 1

\* the slots flushed so far, and those of them the stream has not filled
\* (the slots before the first packet are set by the first insert)
StreamFlushed ==
    {U16(StreamCursor0 + k) : k \in 0..(playout_buf.expected_pkts - 1)}
StreamMissing ==
    StreamFlushed \ (SeqsOf(node[playout_buf.frst].cdata)
                        \cup StreamCursor0..(StreamFirst - 1))

\* C13 amended: flushes cover whole windows of 128 slots: the numbers from
\* 0 on but 50, in order, give received 127, expected 128 and longest gap 1
\* once the window 0..127 is flushed; in general, for a stream in order,
\* expected minus received is the number of flushed slots never inserted
\* (the slots before the first packet count as received), and the longest
\* gap is at least 1 exactly when there is one.
C13_FlushedWindow ==
    (playout_buf.frst # NULL /\ playout_buf.expected_pkts > 0) =>
        /\ playout_buf.expected_pkts
               = U16(playout_buf.last_report_seq - StreamCursor0)
        /\ playout_buf.expected_pkts - playout_buf.received_pkts
               = Cardinality(StreamMissing)
        /\ (StreamMissing # {}) = (playout_buf.longest_gap >= 1)
        /\ (/\ StreamFirst = 0
            /\ ~StreamGapFree
            /\ playout_buf.last_report_seq = STATS_INTERVAL) =>
               /\ playout_buf.received_pkts = 127
               /\ playout_buf.expected_pkts = 128
               /\ playout_buf.longest_gap = 1

\* the stream from 0 has lost 50 and the insert of 256 has flushed the
\* window 0..127
C13_Witness ==
    /\ call.op = "insert"
    /\ call.pkt.seq = 2 * STATS_INTERVAL
    /\ StreamFirst = 0
    /\ 50 \notin SeqsOf(node[playout_buf.frst].cdata)
    /\ playout_buf.last_report_seq = STATS_INTERVAL
    /\ playout_buf.received_pkts = 127

(* -------------------------------- C14 --------------------------------- *)
\* C14: a frame created by a step has arrival time now and playout time
\* now + playout delay + live offset, as they are at that step; no step
\* (pbuf_set_playout_delay and a change of the live offset among them)
\* changes the arrival or playout time of a frame that exists.
C14_PlayoutFixed ==
    [][\A a \in NodeIds :
          /\ (node[a].alloc /\ node'[a].alloc) =>
                 /\ node'[a].playout_time = node[a].playout_time
                 /\ node'[a].arrival_time = node[a].arrival_time
          /\ (~node[a].alloc /\ node'[a].alloc) =>
                 /\ node'[a].arrival_time = clock
                 /\ node'[a].playout_time =
                        clock + playout_buf.playout_delay_us
                              + 1000 * offset_ms]_vars

\* two frames keep the delays they were created with (48 ms with the
\* offset, 16 ms) after the delay has been set to a third value
C14_Witness ==
    /\ call.op = "set_playout_delay"
    /\ \E a, b \in Alloc :
          /\ node[a].playout_time - node[a].arrival_time
                 = InitialDelayUs + 16000
          /\ node[b].playout_time - node[b].arrival_time
                 = InitialDelayUs \div 2
    /\ FrameDelay = InitialDelayUs

(* -------------------------------- C15 --------------------------------- *)
\* the step is a pbuf_insert of a packet with a timestamp below the last
\* frame's
InsertsBelowLast ==
    /\ call'.op = "insert"
    /\ playout_buf.last # NULL
    /\ call'.pkt.ts < node[playout_buf.last].rtp_timestamp

\* C15: a packet with a timestamp below the last frame's is added to the
\* frame of exactly that timestamp if there is one (its sequence number
\* being new to the frame), which changes that frame's packet list and
\* marker only; otherwise it is freed and no frame changes.  The frame
\* sequence stays as it is.  A frame pbuf_insert creates is the new last
\* frame.
C15_StalePacket ==
    [][/\ InsertsBelowLast =>
            LET pkt == call'.pkt
                hit == {a \in Alloc : node[a].rtp_timestamp = pkt.ts}
            IN  /\ FrameList' = FrameList
                /\ playout_buf'.frst = playout_buf.frst
                /\ playout_buf'.last = playout_buf.last
                /\ hit = {} => (node' = node /\ call'.freed = {pkt})
                /\ \A a \in hit :
                      /\ \A b \in NodeIds \ {a} : node'[b] = node[b]
                      /\ node'[a] = [node[a] EXCEPT
                                       !.cdata = node'[a].cdata,
                                       !.mbit = IF pkt.m = 1 THEN 1 ELSE @]
                      /\ pkt.seq \notin SeqsOf(node[a].cdata) =>
                            /\ Pkts(node'[a].cdata)
                                   = Pkts(node[a].cdata) \cup {pkt}
                            /\ Len(node'[a].cdata) = Len(node[a].cdata) + 1
                            /\ call'.freed = {}
       /\ call'.op = "insert" =>
            \A a \in NodeIds :
                (~node[a].alloc /\ node'[a].alloc) =>
                    FrameList' = Append(FrameList, a)]_vars

\* a packet with a timestamp between those of the two frames held has been
\* freed
C15_Witness ==
    /\ call.op = "insert"
    /\ call.pkt \in call.freed
    /\ Len(FrameList) = 2
    /\ node[playout_buf.frst].rtp_timestamp < call.pkt.ts
    /\ call.pkt.ts < node[playout_buf.last].rtp_timestamp

(* -------------------------------- C16 --------------------------------- *)
\* pbuf_destroy frees every frame with its packets
DestroyFreesAll ==
    /\ \A a \in NodeIds : ~node'[a].alloc
    /\ playout_buf'.frst = NULL /\ playout_buf'.last = NULL
    /\ call'.freed = UNION {Pkts(node[a].cdata) : a \in Alloc}

\* C16 as stated: pbuf_destroy frees every frame and packet, and prints
\* the summary exactly when pbuf_insert has been called at least once.
C16_SummaryIfInserted ==
    [][call'.op = "destroy" =>
          /\ DestroyFreesAll
          /\ call'.report = (ninserts > 0)]_vars

\* C16 amended: pbuf_destroy frees every frame and packet, and prints the
\* summary exactly when the cumulative received count is not 0, that is
\* when a flush of the statistics has counted a packet.
C16_SummaryIfCounted ==
    [][call'.op = "destroy" =>
          /\ DestroyFreesAll
          /\ call'.report = (playout_buf.received_pkts_cum # 0)
          /\ call'.report => ninserts > 0]_vars

\* pbuf_destroy has printed the summary and freed several packets
C16_Witness ==
    /\ call.op = "destroy"
    /\ call.report
    /\ Cardinality(call.freed) >= 2
    /\ Alloc = {}

(* -------------------------------- C17 --------------------------------- *)
\* C17: every pbuf_insert, also one that frees its packet as stale or as a
\* duplicate, leaves the statistics as its statistics part computes them
\* from the state before the call: the bit of the packet's number is set,
\* the cursor is initialised, a number whose bit was set raises the
\* duplicate flag and a number below a set bit of its word the out-of-order
\* flag (unless the report of the same call resets them).
C17_StatsAlways ==
    [][call'.op = "insert" =>
          LET pkt == call'.pkt
              w   == pkt.seq \div number_word_bits
          IN  /\ pkt.seq \in playout_buf'.packets
              /\ playout_buf'.last_report_seq # -1
              /\ (pkt.seq \in playout_buf.packets /\ ~call'.report)
                     => playout_buf'.dups
              /\ ((\E x \in playout_buf.packets :
                       x \div number_word_bits = w /\ x > pkt.seq)
                     /\ ~call'.report)
                     => playout_buf'.out_of_order_pkts
              /\ playout_buf'
                     = [collect_statistics(playout_buf, pkt) EXCEPT
                          !.frst = playout_buf'.frst,
                          !.last = playout_buf'.last]]_vars

\* a packet older than every frame held has been freed, and the bit of its
\* number is set
C17_Witness ==
    /\ call.op = "insert"
    /\ call.pkt \in call.freed
    /\ playout_buf.frst # NULL
    /\ call.pkt.ts < node[playout_buf.frst].rtp_timestamp
    /\ call.pkt.seq \in playout_buf.packets

(* -------------------------------- C18 --------------------------------- *)
\* the frames without marker that the step hands to decode_func or frees
ActedOnUnmarked ==
    {a \in Alloc :
        /\ node[a].mbit = 0
        /\ \/ call'.op = "decode"
                 /\ \E k \in 1..Len(call'.cb) : call'.cb[k].frame = a
           \/ call'.op = "remove" /\ ~node'[a].alloc}

MetIncomplete ==
    {k \in 1..Len(FrameList) :
        LET f == node[FrameList[k]]
        IN  /\ f.decoded = 0 /\ clock > f.playout_time /\ ~Complete(f)
            /\ \A j \in Decodable : j > k}

\* C19: pbuf_decode(now) marks such a frame completed when now is more
\* than the grace period past its playout time and leaves it as it is
\* otherwise; it does not hand it to decode_func in this call and goes on
\* to the frames behind it, the first decodable of which it decodes.
C19_IncompleteSkipped ==
    [][call'.op = "decode" =>
          \A k \in MetIncomplete :
              LET a == FrameList[k]
              IN  /\ node'[a] =
                        IF clock > node[a].playout_time + GracePeriod
                        THEN [node[a] EXCEPT !.completed = TRUE]
                        ELSE node[a]
                  /\ \A i \in 1..Len(call'.cb) : call'.cb[i].frame # a
                  /\ Decodable # {} =>
                        /\ Len(call'.cb) = 1
                        /\ \E j \in Decodable :
                              /\ call'.cb[1].frame = FrameList[j]
                              /\ \A i \in Decodable : j <= i]_vars

\* pbuf_decode, called more than the grace period after the playout time
\* of a frame without marker, has marked it completed and has called
\* nothing
C19_Witness ==
    /\ call.op = "decode"
    /\ call.cb = <<>>
    /\ \E a \in Alloc :
          /\ node[a].mbit = 0 /\ node[a].completed /\ node[a].decoded = 0
          /\ clock > node[a].playout_time + GracePeriod

(* -------------------------------- C20 --------------------------------- *)
\* C20: in every reachable state the playout time of a frame is not later
\* than that of the frame after it, also when pbuf_set_playout_delay is
\* called between the creation of frames.
C20_PlayoutAscending ==
    \A k \in 1..(Len(FrameList) - 1) :
        node[FrameList[k]].playout_time
            <= node[FrameList[k + 1]].playout_time

(* -------------------------------- C21 --------------------------------- *)
\* C21: a pbuf_insert moves the cursor of the statistics (flushes) only
\* when the packet's number is at least 256 after the cursor in wraparound
\* order, and then forward only; a packet whose number precedes the cursor
\* leaves the cursor and the expected count as they are.
C21_LateNoFlush ==
    [][(call'.op = "insert" /\ playout_buf.last_report_seq # -1) =>
          LET cursor == playout_buf.last_report_seq
              ahead  == SDiff16(call'.pkt.seq, cursor)
          IN  /\ playout_buf'.last_report_seq # cursor
                     => ahead >= 2 * STATS_INTERVAL
              /\ SDiff16(playout_buf'.last_report_seq, cursor) >= 0
              /\ ahead < 0 =>
                     /\ playout_buf'.last_report_seq = cursor
                     /\ playout_buf'.expected_pkts
                            = playout_buf.expected_pkts
                     /\ playout_buf'.expected_pkts_cum
                            = playout_buf.expected_pkts_cum]_vars

(* -------------------------------- C22 --------------------------------- *)
\* C22: the cumulative counts take in each flushed window once: a
\* pbuf_insert that moves the cursor adds the number of slots the cursor
\* passes to expected_pkts_cum and the number of those slots whose bit is
\* set to received_pkts_cum, however many flushes come between two reports;
\* a pbuf_insert that leaves the cursor adds nothing.
C22_CumCountsOnce ==
    [][call'.op = "insert" =>
          LET cursor == playout_buf.last_report_seq
              width  == IF cursor = -1 THEN 0
                        ELSE U16(playout_buf'.last_report_seq - cursor)
              window == {U16(cursor + k) : k \in 0..(width - 1)}
              marked == playout_buf.packets \cup {call'.pkt.seq}
          IN  /\ playout_buf'.expected_pkts_cum
                     = playout_buf.expected_pkts_cum + width
              /\ playout_buf'.received_pkts_cum
                     = playout_buf.received_pkts_cum
                           + Cardinality(window \cap marked)]_vars

(* -------------------------------- C23 --------------------------------- *)
\* C23: the first pbuf_insert sets the cursor to the packet's number
\* rounded down to a multiple of 128 and marks the slots from the cursor up
\* to that number (the packet's own slot is marked as for any packet);
\* every flush of a stream in order without loss, whatever its first
\* number, then adds as much to the received count as to the expected one.
C23_Startup ==
    [][call'.op = "insert" =>
          LET seq    == call'.pkt.seq
              cursor == playout_buf.last_report_seq
          IN  /\ cursor = -1 =>
                    /\ playout_buf'.last_report_seq
                           = seq - (seq % STATS_INTERVAL)
                    /\ playout_buf'.packets
                           = (seq - (seq % STATS_INTERVAL))..seq
                    /\ playout_buf'.expected_pkts = 0
              /\ (/\ cursor # -1
                  /\ playout_buf'.last_report_seq # cursor
                  /\ StreamGapFree') =>
                    /\ playout_buf'.expected_pkts > playout_buf.expected_pkts
                    /\ playout_buf'.received_pkts - playout_buf.received_pkts
                           = playout_buf'.expected_pkts
                                 - playout_buf.expected_pkts]_vars

\* a stream without loss that started at 1, inside a window, has flushed
\* that window with 128 received of 128 expected
C23_Witness ==
    /\ call.op = "insert"
    /\ StreamFirst = 1
    /\ StreamGapFree
    /\ call.pkt.seq = 2 * STATS_INTERVAL
    /\ playout_buf.last_report_seq = STATS_INTERVAL
    /\ playout_buf.expected_pkts = STATS_INTERVAL
    /\ playout_buf.received_pkts = STATS_INTERVAL

(* -------------------------------- C24 --------------------------------- *)
\* the 64-bit words the step flushes, as the sets of their set bits: the
\* words from the old cursor up to the new one, with the bit of the packet
\* of the step
FlushedWords ==
    LET cursor == playout_buf.last_report_seq
        n      == IF cursor = -1 THEN 0
                  ELSE U16(playout_buf'.last_report_seq - cursor)
                           \div number_word_bits
        marked == playout_buf.packets \cup {call'.pkt.seq}
    IN  {{x % number_word_bits :
             x \in {y \in marked :
                      y \div number_word_bits
                          = U16(cursor + k * number_word_bits)
                                \div number_word_bits}} :
            k \in 0..(n - 1)}

\* the longer of the runs of unset bits that touch an edge of the word
EdgeRun(bits) ==
    IF bits = {} THEN number_word_bits
    ELSE Max((number_word_bits - 1) - MaxOf(bits), MinOf(bits))

\* the longest run of unset bits anywhere in the word
ZeroRun(bits) ==
    MaxOf({n \in 0..number_word_bits :
              \E s \in 0..(number_word_bits - n) :
                  \A b \in s..(s + n - 1) : b \notin bits})

\* C24 as stated: a pbuf_insert without report leaves longest_gap at the
\* greatest of its value before and, for each word flushed, the run of
\* unset bits that touches an edge of the word (64 for a word without set
\* bit, nothing for a word with all bits set).
C24_EdgeRuns ==
    [][(call'.op = "insert" /\ ~call'.report) =>
          playout_buf'.longest_gap
              = MaxOf({playout_buf.longest_gap}
                        \cup {EdgeRun(bits) : bits \in FlushedWords})]_vars

\* C24 amended: a pbuf_insert without report leaves longest_gap at the
\* greatest of its value before and, for each word flushed, the longest
\* run of unset bits anywhere in the word, at an edge or between two set
\* bits (64 for a word without set bit, nothing for a word with all bits
\* set); a run that goes over the boundary of two words counts in each
\* word by the part that lies in it.
C24_ZeroRuns ==
    [][(call'.op = "insert" /\ ~call'.report) =>
          playout_buf'.longest_gap
              = MaxOf({playout_buf.longest_gap}
                        \cup {ZeroRun(bits) : bits \in FlushedWords})]_vars

\* the stream from 0 has lost 50..53, between set bits of the first word,
\* and 62..65, over the boundary of the first two words: the flush of both
\* words leaves the longest gap at 4
C24_Witness ==
    /\ call.op = "insert"
    /\ StreamFirst = 0
    /\ playout_buf.last_report_seq = STATS_INTERVAL
    /\ playout_buf.expected_pkts = STATS_INTERVAL
    /\ SeqsOf(node[playout_buf.frst].cdata) \cap 0..127
           = 0..127 \ (50..53 \cup 62..65)
    /\ playout_buf.longest_gap = 4

(* -------------------------------- C25 --------------------------------- *)
\* a packet has been expected since the last report when the test of the
\* report is made: the expected count was above 0 or the step has flushed
ExpectedSinceReport ==
    \/ playout_buf.expected_pkts > 0
    \/ /\ playout_buf.last_report_seq # -1
       /\ playout_buf'.last_report_seq # playout_buf.last_report_seq

\* what a report leaves: the counts since the last report, the longest gap
\* and the two flags reset, the timestamp of the report taken
ReportResets ==
    /\ playout_buf'.expected_pkts = 0
    /\ playout_buf'.received_pkts = 0
    /\ playout_buf'.longest_gap = 0
    /\ ~playout_buf'.out_of_order_pkts
    /\ ~playout_buf'.dups
    /\ playout_buf'.last_display_ts = call'.pkt.ts

\* no step lowers a cumulative count, and a pbuf_insert that does not
\* flush leaves both as they are, report or not
CumKept ==
    /\ playout_buf'.received_pkts_cum >= playout_buf.received_pkts_cum
    /\ playout_buf'.expected_pkts_cum >= playout_buf.expected_pkts_cum
    /\ playout_buf'.last_report_seq = playout_buf.last_report_seq =>
          /\ playout_buf'.received_pkts_cum = playout_buf.received_pkts_cum
          /\ playout_buf'.expected_pkts_cum = playout_buf.expected_pkts_cum

\* C25: pbuf_insert prints the report exactly when the packet's timestamp
\* is more than 5 * 90000 past the timestamp of the last report and a
\* packet has been expected since; a packet with a timestamp before that
\* of the last report prints none.  A report resets the counts since the
\* last report, the longest gap and the flags; the cumulative counts are
\* not changed by it and never go down.
C25_ReportExact ==
    [][call'.op = "insert" =>
          /\ call'.report
                 = (/\ call'.pkt.ts - playout_buf.last_display_ts
                           > ReportTsThreshold
                    /\ ExpectedSinceReport)
          /\ call'.report => ReportResets
          /\ ~call'.report =>
                 playout_buf'.last_display_ts = playout_buf.last_display_ts
          /\ CumKept]_vars

(* -------------------------------- C26 --------------------------------- *)
\* the bits set before the step for numbers above the packet's in the same
\* run of n slots of the bitmap
SetAbove(n) ==
    {x \in playout_buf.packets :
        x \div n = call'.pkt.seq \div n /\ x > call'.pkt.seq}

\* the packet of the step comes after every packet held (stream in order)
InOrderStep ==
    playout_buf.frst = NULL \/ SDiff16(call'.pkt.seq, StreamHead) > 0

\* C26 as stated: a pbuf_insert (without report) sets the out-of-order
\* flag when a bit is set for a number above the packet's in the same
\* window of 128 slots; a packet that comes in order does not set it.
C26_SameWindow ==
    [][(call'.op = "insert" /\ ~call'.report) =>
          /\ SetAbove(STATS_INTERVAL) # {}
                 => playout_buf'.out_of_order_pkts
          /\ InOrderStep =>
                 playout_buf'.out_of_order_pkts
                     = playout_buf.out_of_order_pkts]_vars

\* C26 amended: a pbuf_insert (without report) sets the out-of-order flag
\* exactly when a bit is set for a number above the packet's in the same
\* 64-bit word of the bitmap, and leaves it as it is otherwise: a packet
\* that arrives after a later one of the next word is not noticed.  A
\* packet that comes in order does not set it.
C26_SameWord ==
    [][(call'.op = "insert" /\ ~call'.report) =>
          /\ playout_buf'.out_of_order_pkts
                 = (playout_buf.out_of_order_pkts
                        \/ SetAbove(number_word_bits) # {})
          /\ InOrderStep =>
                 playout_buf'.out_of_order_pkts
                     = playout_buf.out_of_order_pkts]_vars

\* 63 has arrived after 64, which is in the next word of the same window:
\* the flag is not set
C26_Witness ==
    /\ call.op = "insert"
    /\ call.pkt.seq = 63
    /\ {62, 64} \subseteq SeqsOf(node[playout_buf.frst].cdata)
    /\ 64 \in playout_buf.packets
    /\ ~playout_buf.out_of_order_pkts

(* -------------------------------- C27 --------------------------------- *)
\* a precedes b: the difference a - b, taken as a signed 16-bit number, is
\* negative
Precedes(a, b) == (a - b) % 65536 >= 32768

\* the comparison for the numbers a and b
PrecedesLaws(a, b) ==
    /\ Precedes(a, b) = (SDiff16(a, b) < 0)
    /\ ~Precedes(a, a)
    /\ (a # b /\ (a - b) % 65536 # 32768)
           => (Precedes(a, b) # Precedes(b, a))

\* where add_coded_unit puts number b in list cdata, by Precedes alone:
\* at the head when b does not precede the head and is not equal to it,
\* otherwise behind the packets at the head that b precedes, unless the
\* packet met there has the number b
PlacedByPrecedes(cdata, b) ==
    LET tmp == [seqno |-> b, data |-> call'.pkt]
        n   == Len(cdata)
        k   == CHOOSE j \in 1..(n + 1) :
                   /\ j = n + 1 \/ ~Precedes(b, cdata[j].seqno)
                   /\ \A i \in 1..(j - 1) : Precedes(b, cdata[i].seqno)
    IN  IF ~Precedes(b, cdata[1].seqno) /\ b # cdata[1].seqno
        THEN <<tmp>> \o cdata
        ELSE IF k = n + 1 THEN cdata \o <<tmp>>
        ELSE IF b # cdata[k].seqno
             THEN SubSeq(cdata, 1, k - 1) \o <<tmp>> \o SubSeq(cdata, k, n)
             ELSE cdata

\* C27: a precedes b iff (int16)(a - b) < 0; no number precedes itself, and
\* of two different numbers not half the range apart exactly one precedes
\* the other (for every 16-bit number against the numbers offered, once,
\* and for the numbers each step compares); add_coded_unit places the
\* packet by this comparison.
C27_Precedes ==
    [][call'.op = "insert" =>
          /\ ninserts = 0 =>
                 \A a \in PairSeqs : \A b \in 0..65535 :
                     PrecedesLaws(a, b) /\ PrecedesLaws(b, a)
          /\ playout_buf.frst # NULL =>
                 LET cdata == node[playout_buf.frst].cdata
                     b     == call'.pkt.seq
                 IN  /\ \A k \in 1..Len(cdata) :
                            PrecedesLaws(cdata[k].seqno, b)
                     /\ node'[playout_buf.frst].cdata
                            = PlacedByPrecedes(cdata, b)]_vars

\* 0 has arrived after 65535 and 1 and has been put between them: it
\* precedes 1 and 65535 precedes it
C27_Witness ==
    /\ call.op = "insert"
    /\ call.pkt.seq = 0
    /\ playout_buf.frst # NULL
    /\ [k \in 1..Len(node[playout_buf.frst].cdata) |->
           node[playout_buf.frst].cdata[k].seqno] = <<1, 0, 65535>>
    /\ Precedes(0, 1) /\ Precedes(65535, 0)

(* -------------------------------- C28 --------------------------------- *)
\* C28: in every reachable state every frame but the last one is complete
\* (it has its marker or is marked completed); only the last frame can be
\* incomplete.
C28_OnlyTailIncomplete ==
    \A k \in 1..(Len(FrameList) - 1) : Complete(node[FrameList[k]])

\* three frames without marker are held: the first two are marked
\* completed, the last one is incomplete
C28_Witness ==
    /\ Len(FrameList) = 3
    /\ \A k \in 1..3 : node[FrameList[k]].mbit = 0
    /\ node[FrameList[1]].completed /\ node[FrameList[2]].completed
    /\ ~Complete(node[FrameList[3]])

(* -------------------------------- C29 --------------------------------- *)
\* the frames the step hands to decode_func
HandedOver ==
    IF call'.op = "decode"
    THEN {call'.cb[k].frame : k \in 1..Len(call'.cb)}
    ELSE {}

\* C29: a frame is handed to decode_func at most once while it is held: a
\* frame handed over was not decoded before and is decoded afterwards, a
\* decoded frame is not handed over again, and no step clears the decoded
\* flag of a frame it keeps.
C29_DecodedOnce ==
    [][\A a \in Alloc :
          /\ a \in HandedOver =>
                 node[a].decoded = 0 /\ node'[a].decoded = 1
          /\ node[a].decoded = 1 =>
                 /\ a \notin HandedOver
                 /\ node'[a].alloc => node'[a].decoded = 1]_vars

\* pbuf_decode has found only a decoded frame past its playout time and has
\* called nothing
C29_Witness ==
    /\ call.op = "decode"
    /\ call.cb = <<>>
    /\ Alloc # {}
    /\ \A a \in Alloc :
          node[a].decoded = 1 /\ clock > node[a].playout_time

(* -------------------------------- C30 --------------------------------- *)
\* C30: the media timestamps of the frames handed to decode_func are
\* strictly increasing in the order of the calls: no frame is decoded
\* after a frame of a greater timestamp and no timestamp is decoded twice,
\* also when its frame has been freed and the buffer emptied in between.
C30_DecodeAscending ==
    \A i, j \in 1..Len(decode_data) :
        i < j => decode_data[i] < decode_data[j]

StoredOnce(old, new, p) ==
    \E k \in 1..Len(new) :
        /\ new[k] = [seqno |-> p.seq, data |-> p]
        /\ old = SubSeq(new, 1, k - 1) \o SubSeq(new, k + 1, Len(new))

\* the frame at address a holds after the step what it held before
KeptCdata(a) ==
    /\ node'[a].alloc = node[a].alloc
    /\ node'[a].cdata = node[a].cdata

\* every frame held has a packet, its packets have its timestamp, the
\* frames held are the frames of the list, no packet is in two frames
OwnedByFrames ==
    /\ \A a \in NodeIds :
          /\ node[a].alloc =>
                /\ Len(node[a].cdata) >= 1
                /\ \A k \in 1..Len(node[a].cdata) :
                      /\ node[a].cdata[k].data.ts = node[a].rtp_timestamp
                      /\ node[a].cdata[k].data.seq = node[a].cdata[k].seqno
          /\ ~node[a].alloc => node[a].cdata = <<>>
    /\ Alloc = {FrameList[i] : i \in 1..Len(FrameList)}
    /\ \A a, b \in Alloc :
          a # b => Pkts(node[a].cdata) \cap Pkts(node[b].cdata) = {}

\* the packet of pbuf_insert is either freed, and no frame changes its
\* packets, or filed once in one frame and not freed
InsertOwns ==
    LET p == call'.pkt
    IN  \/ /\ call'.freed = {p}
           /\ \A a \in NodeIds : KeptCdata(a)
        \/ /\ call'.freed = {}
           /\ \E a \in NodeIds :
                 /\ node'[a].alloc
                 /\ StoredOnce(node[a].cdata, node'[a].cdata, p)
                 /\ \A b \in NodeIds \ {a} : KeptCdata(b)

\* a call that frees frames frees the packets of exactly these frames
FreeOwns ==
    /\ \A a \in NodeIds :
          \/ KeptCdata(a)
          \/ Evicted(a) /\ node'[a].cdata = <<>>
    /\ call'.freed =
          UNION {Pkts(node[a].cdata) : a \in {b \in NodeIds : Evicted(b)}}

\* C32: every frame held has at least one packet, all of the frame's
\* timestamp; the packet handed to pbuf_insert is afterwards either in
\* exactly one frame or freed (stale or duplicate), never both; the
\* packets of a frame leave it only when pbuf_remove or pbuf_destroy frees
\* the frame and them with it; no other call touches the packets.
C32_PacketOwnership ==
    /\ []OwnedByFrames
    /\ [][/\ call'.op = "insert" => InsertOwns
          /\ call'.op \in {"remove", "destroy"} => FreeOwns
          /\ call'.op \notin {"insert", "remove", "destroy"} =>
                \A a \in NodeIds : KeptCdata(a)]_vars

\* pbuf_insert has dropped a duplicate of a packet that a frame holds,
\* while another frame is held as well
C32_Witness ==
    /\ call.op = "insert"
    /\ call.freed = {call.pkt}
    /\ Cardinality(Alloc) = 2
    /\ \E a \in Alloc :
          /\ call.pkt \in Pkts(node[a].cdata)
          /\ Len(node[a].cdata) = 2

(* -------------------------------- C33 --------------------------------- *)
\* C33: a frame with the decoded flag has the marker or is marked
\* completed, so a decoded frame past its playout time passes the test of
\* pbuf_remove, and a pbuf_remove that finds it at the head frees it.
C33_DecodedIsComplete ==
    /\ [](\A a \in Alloc :
             node[a].decoded = 1 =>
                 /\ Complete(node[a])
                 /\ clock > node[a].playout_time =>
                        RemoveDue(node[a], clock))
    /\ [][(/\ call'.op = "remove"
           /\ playout_buf.frst # NULL
           /\ node[playout_buf.frst].decoded = 1
           /\ clock > node[playout_buf.frst].playout_time)
              => Evicted(playout_buf.frst)]_vars

\* pbuf_remove has freed a decoded frame that had no marker and was marked
\* completed, and holds the frame after it
C33_Witness ==
    /\ call.op = "remove"
    /\ call.freed # {}
    /\ Len(decode_data) = 1
    /\ \A p \in call.freed : p.m = 0 /\ p.ts = decode_data[1]
    /\ Cardinality(Alloc) = 1

(* -------------------------------- C34 --------------------------------- *)
\* the frame at address a differs after the step in nothing but its
\* decoded and completed flags
FlagsOnly(a) ==
    node'[a] = [node[a] EXCEPT !.decoded = node'[a].decoded,
                               !.completed = node'[a].completed]

\* C34: a pbuf_decode call leaves the buffer structure, the statistics,
\* the delay and the clock as they are, and every frame with its links,
\* packets, times and marker; it sets the decoded flag of no frame but the
\* one handed to decode_func, and the completed flag of no frame but an
\* undecoded frame without marker that is more than the grace period past
\* its playout time and is not the frame handed over.
C34_DecodeFrame ==
    [][call'.op = "decode" =>
          /\ UNCHANGED <<playout_buf, offset_ms, clock, ninserts>>
          /\ \A a \in NodeIds :
                /\ FlagsOnly(a)
                /\ node'[a].decoded # node[a].decoded =>
                      /\ node[a].alloc
                      /\ node'[a].decoded = 1
                      /\ Len(call'.cb) = 1
                      /\ call'.cb[1].frame = a
                /\ node'[a].completed # node[a].completed =>
                      /\ node[a].alloc
                      /\ node'[a].completed
                      /\ node[a].mbit = 0 /\ node[a].decoded = 0
                      /\ clock > node[a].playout_time + GracePeriod
                      /\ \A k \in 1..Len(call'.cb) : call'.cb[k].frame # a
      ]_vars

\* pbuf_decode has handed over nothing and has marked the last of two
\* frames completed, a frame without marker past its grace period
C34_Witness ==
    /\ call.op = "decode"
    /\ call.cb = <<>>
    /\ Cardinality(Alloc) = 2
    /\ node[playout_buf.frst].decoded = 1
    /\ node[playout_buf.last].decoded = 0
    /\ node[playout_buf.last].mbit = 0
    /\ node[playout_buf.last].completed
    /\ clock > node[playout_buf.last].playout_time + GracePeriod

(* -------------------------------- C35 --------------------------------- *)
\* C35: the head pointer is null exactly when the tail pointer is null and
\* exactly when no frame is held, and pbuf_is_empty returns true exactly
\* then: after pbuf_init, after no pbuf_insert (its allocation succeeding),
\* and after the pbuf_remove that frees the last frame held.
C35_EmptyIffNoFrame ==
    /\ (playout_buf.frst = NULL) <=> (playout_buf.last = NULL)
    /\ (playout_buf.frst = NULL) <=> (Alloc = {})
    /\ (playout_buf.frst = NULL) <=> (FrameList = <<>>)
    /\ pbuf_is_empty <=> (Alloc = {})
    /\ call.op = "init" => pbuf_is_empty
    /\ call.op = "insert" => ~pbuf_is_empty
    /\ (call.op = "remove" /\ Alloc = {}) => pbuf_is_empty

\* pbuf_remove has freed the two frames held and pbuf_is_empty returns true
C35_Witness ==
    /\ call.op = "remove"
    /\ Cardinality({p.ts : p \in call.freed}) = 2
    /\ pbuf_is_empty
    /\ playout_buf.last = NULL

(* -------------------------------- C36 --------------------------------- *)
\* for (uint16_t i = i0; i != until; i += 64) leaves after exactly n
\* iterations
FlushRuns(i0, until, n) ==
    /\ U16(i0 + n * number_word_bits) = until
    /\ \A m \in 0..(n - 1) : U16(i0 + m * number_word_bits) # until

\* C36: before the first pbuf_insert the cursor last_report_seq is -1,
\* from then on a multiple of STATS_INTERVAL (128) in 0..65535; the flush
\* loop, stepping the 16-bit index by 64 from the cursor, meets the flush
\* limit after at most 1024 iterations, each adding 64 to the expected
\* count, and the cursor is the limit afterwards.
C36_CursorAligned ==
    /\ [](IF ninserts = 0 THEN playout_buf.last_report_seq = -1
          ELSE /\ playout_buf.last_report_seq \in 0..(SeqMod - 1)
               /\ playout_buf.last_report_seq % STATS_INTERVAL = 0)
    /\ [][call'.op = "insert" =>
            LET pkt   == call'.pkt
                pb    == StatsMark(StatsInit(playout_buf, pkt), pkt)
                i0    == pb.last_report_seq
                until == U16((pkt.seq \div STATS_INTERVAL) * STATS_INTERVAL
                               - STATS_INTERVAL)
                n     == U16(until - i0) \div number_word_bits
            IN  IF FlushDue(pb, pkt)
                THEN /\ n \in 1..1024
                     /\ FlushRuns(i0, until, n)
                     /\ playout_buf'.last_report_seq = until
                     /\ playout_buf'.expected_pkts_cum =
                            playout_buf.expected_pkts_cum
                                + playout_buf.expected_pkts
                                + n * number_word_bits
                ELSE /\ playout_buf'.last_report_seq = i0
                     /\ playout_buf'.expected_pkts_cum =
                            playout_buf.expected_pkts_cum]_vars

\* the second packet is behind the cursor of the first, and the flush loop
\* has run 1020 times, around the 16-bit circle, to the cursor 0
C36_Witness ==
    /\ call.op = "insert"
    /\ ninserts = 2
    /\ call.pkt.seq \in STATS_INTERVAL..(2 * STATS_INTERVAL - 1)
    /\ playout_buf.last_report_seq = 0
    /\ playout_buf.expected_pkts_cum = 1020 * number_word_bits

(* -------------------------------- C37 --------------------------------- *)
\* C37: the counts of the current report window satisfy
\* 0 <= received_pkts <= expected_pkts, expected_pkts is a multiple of the
\* word size 64, and 0 <= longest_gap <= 64, in every state: after flushes
\* of full, partial and empty words, after flushes around the circle
\* caused by late packets, and after the reset of a report.
C37_WindowCounters ==
    /\ 0 <= playout_buf.received_pkts
    /\ playout_buf.received_pkts <= playout_buf.expected_pkts
    /\ playout_buf.expected_pkts % number_word_bits = 0
    /\ 0 <= playout_buf.longest_gap
    /\ playout_buf.longest_gap <= number_word_bits

\* a flush has counted words with and without packets after a report had
\* reset the counts: some but not all of the expected packets are received
C37_Witness ==
    /\ call.op = "insert"
    /\ ~call.report
    /\ playout_buf.last_display_ts # 0
    /\ 0 < playout_buf.received_pkts
    /\ playout_buf.received_pkts < playout_buf.expected_pkts
    /\ playout_buf.longest_gap = number_word_bits

====
